---- MODULE Spec2Model ----
(***************************************************************************)
(* A model of SBOLExplorer's flask service: the SPARQL query layer         *)
(* (query.py), the clustering report parsers (cluster.py), the sequence    *)
(* search flag handling (sequencesearch.py) and the HTTP gateway           *)
(* (explorer.py).                                                          *)
(*                                                                         *)
(* Python dicts are modelled as sequences of <<key, value>> pairs, which   *)
(* keeps their insertion order (the order a `for key in dict` loop sees).  *)
(***************************************************************************)
EXTENDS Integers, Sequences, FiniteSets, TLC

VARIABLES
    \* sequencesearch.py: the two module-level flag dicts
    globalFlags, exactFlags,
    \* the last sequence_search call: its user flags and the tool runs it made
    lastSearch,
    \* history: the <<flag, value>> pairs callers supplied to global-mode calls
    supplied,
    \* cluster.py: the content of usearch/uclust_results.uc, and the value
    \* returned by the last uclust2clusters() call
    report, clustersOut,
    \* utils (configuration & state store): the persisted configuration
    config,
    \* the directory service's answer to utils.get_wor()
    wor,
    \* the last query_sparql / page_query call: its inputs and what it returned
    lastQuery,
    \* functools.lru_cache around memoized_query_sparql: its entries, least
    \* recently used first
    cache,
    \* history: a clock of the cache's uses, the tick of the last use of each
    \* cached query text, and how much of the workload has been issued
    clock, lastUse, workload,
    \* utils: the saved cluster map and rank table and the update timestamps,
    \* and the operational log
    persisted, log,
    \* the full-text index, the wall clock, the corpus file usearch/sequences.fsa
    index, now, fasta,
    \* cluster.py's module-level uclust_identity and usearch_binary_filename,
    \* and the argument vector of the last run_uclust()
    clusterMod, uclustRun,
    \* explorer.py: the full update in progress, the app's first-request state,
    \* and the response to the last request
    update, gateway, response,
    \* the last deduplicate_results, analyze_uclust and uclust2uris calls
    dedup, analysis, uris,
    \* a GET / request running beside a full update: what it has read so far
    reader,
    \* usearch/sequences.fsa as a file being rewritten, and a /sequencesearch
    \* request running beside the rewrite
    corpus

seqVars == <<globalFlags, exactFlags, lastSearch, supplied>>
clusterVars == <<report, clustersOut>>
queryVars == <<config, wor, lastQuery>>
cacheVars == <<cache, clock, lastUse, workload>>
gwVars == <<persisted, log, index, now, fasta, clusterMod, uclustRun,
            update, gateway, response>>
xVars == <<dedup, analysis, uris, reader, corpus>>
vars == <<globalFlags, exactFlags, lastSearch, supplied, report, clustersOut,
          config, wor, lastQuery, cache, clock, lastUse, workload,
          persisted, log, index, now, fasta, clusterMod, uclustRun,
          update, gateway, response, dedup, analysis, uris, reader, corpus>>

----------------------------------------------------------------------------
(* Python dict operations on sequences of <<key, value>> pairs *)

DictKeys(d) == {d[i][1] : i \in DOMAIN d}

DictHas(d, k) == k \in DictKeys(d)

DictGet(d, k) == d[CHOOSE i \in DOMAIN d : d[i][1] = k][2]

\* d[k] = v: replaces the value in place, or appends a new key at the end
DictSet(d, k, v) ==
    IF DictHas(d, k)
    THEN [i \in DOMAIN d |-> IF d[i][1] = k THEN <<k, v>> ELSE d[i]]
    ELSE Append(d, <<k, v>>)

----------------------------------------------------------------------------
(* sequencesearch.py *)

platform == "linux"

vsearch_binary_filename ==
    IF platform = "darwin" THEN "usearch/vsearch_macos" ELSE "usearch/vsearch_linux"

\* the module-level defaults, in the order the dict literal lists them
InitGlobalFlags ==
    << <<"maxaccepts", "50">>, <<"id", "0.8">>, <<"iddef", "2">>,
       <<"maxrejects", "0">>, <<"maxseqlength", "5000">>, <<"minseqlength", "20">> >>

InitExactFlags == << >>

\* "--" + flag
Dashed(flag) ==
    CASE flag = "maxaccepts" -> "--maxaccepts"
      [] flag = "id" -> "--id"
      [] flag = "iddef" -> "--iddef"
      [] flag = "maxrejects" -> "--maxrejects"
      [] flag = "maxseqlength" -> "--maxseqlength"
      [] flag = "minseqlength" -> "--minseqlength"
      [] flag = "search_exact" -> "--search_exact"
      [] flag = "evalue" -> "--evalue"
      [] OTHER -> "--"

\* fileName[:-4] + '.uc'
UcName(fileName) == IF fileName = "tmp1.fsa" THEN "tmp1.uc" ELSE "tmp.uc"

RECURSIVE append_flags_to_args(_, _)
append_flags_to_args(argsList, flags) ==
    IF flags = << >> THEN argsList
    ELSE append_flags_to_args(
            argsList \o <<Dashed(Head(flags)[1]), Head(flags)[2]>>, Tail(flags))

\* the argument vector handed to subprocess.Popen
run_vsearch_global(fileName, gFlags) ==
    append_flags_to_args(
        <<vsearch_binary_filename, "--usearch_global", fileName, "--db",
          "usearch/sequences.fsa", "--uc", UcName(fileName), "--uc_allhits">>,
        gFlags)

run_vsearch_exact(fileName, eFlags) ==
    append_flags_to_args(
        <<vsearch_binary_filename, "--search_exact", fileName, "--db",
          "usearch/sequences.fsa", "--uc", UcName(fileName), "--uc_allhits">>,
        eFlags)

\* a planted fault: every user flag is written into the dict (dict.update)
RECURSIVE add_global_flags_insert(_, _)
add_global_flags_insert(userFlags, gFlags) ==
    IF userFlags = << >> THEN gFlags
    ELSE add_global_flags_insert(Tail(userFlags),
            DictSet(gFlags, Head(userFlags)[1], Head(userFlags)[2]))

RECURSIVE add_global_flags(_, _)
add_global_flags(userFlags, gFlags) ==
    IF userFlags = << >> THEN gFlags
    ELSE LET flag == Head(userFlags)[1]
         IN  add_global_flags(Tail(userFlags),
                IF DictHas(gFlags, flag)
                THEN DictSet(gFlags, flag, Head(userFlags)[2])
                ELSE gFlags)

RECURSIVE add_exact_flags(_, _)
add_exact_flags(userFlags, eFlags) ==
    IF userFlags = << >> THEN eFlags
    ELSE LET flag == Head(userFlags)[1]
         IN  add_exact_flags(Tail(userFlags),
                IF DictHas(eFlags, flag)
                THEN DictSet(eFlags, flag, Head(userFlags)[2])
                ELSE eFlags)

\* a planted fault: the mode follows the truthiness of the flag's value
sequence_search_by_value(userFlags, fileName, gFlags, eFlags) ==
    IF DictHas(userFlags, "search_exact") /\ DictGet(userFlags, "search_exact") # "0"
    THEN LET e2 == add_exact_flags(userFlags, eFlags)
         IN  [globalFlags |-> gFlags, exactFlags |-> e2,
              runs |-> <<run_vsearch_exact(fileName, e2)>>]
    ELSE LET g2 == add_global_flags(userFlags, gFlags)
         IN  [globalFlags |-> g2, exactFlags |-> eFlags,
              runs |-> <<run_vsearch_global(fileName, g2)>>]

\* a planted fault: the overrides are merged into a copy that lives for the
\* call only
sequence_search_local_copy(userFlags, fileName, gFlags, eFlags) ==
    IF DictHas(userFlags, "search_exact")
    THEN LET e2 == add_exact_flags(userFlags, eFlags)
         IN  [globalFlags |-> gFlags, exactFlags |-> eFlags,
              runs |-> <<run_vsearch_exact(fileName, e2)>>]
    ELSE LET g2 == add_global_flags(userFlags, gFlags)
         IN  [globalFlags |-> gFlags, exactFlags |-> eFlags,
              runs |-> <<run_vsearch_global(fileName, g2)>>]

\* the flag dicts after the call and the tool runs the call made, in order
sequence_search(userFlags, fileName, gFlags, eFlags) ==
    IF DictHas(userFlags, "search_exact")
    THEN LET e2 == add_exact_flags(userFlags, eFlags)
         IN  [globalFlags |-> gFlags, exactFlags |-> e2,
              runs |-> <<run_vsearch_exact(fileName, e2)>>]
    ELSE LET g2 == add_global_flags(userFlags, gFlags)
         IN  [globalFlags |-> g2, exactFlags |-> eFlags,
              runs |-> <<run_vsearch_global(fileName, g2)>>]

(* the callers' flag maps: every map over UserKeys with values in UserValues *)
UserKeys == <<"search_exact", "maxaccepts", "id", "evalue">>
UserValues == {"0", "0.9"}

FlagMap(f) ==
    LET present == SelectSeq(UserKeys, LAMBDA k : f[k] # "absent")
    IN  [i \in 1..Len(present) |-> <<present[i], f[present[i]]>>]

UserFlagMaps ==
    {FlagMap(f) : f \in [{UserKeys[i] : i \in DOMAIN UserKeys} -> UserValues \cup {"absent"}]}

NoSearch == [called |-> FALSE, userFlags |-> << >>, before |-> << >>, runs |-> << >>]

InitSeq ==
    /\ globalFlags = InitGlobalFlags
    /\ exactFlags = InitExactFlags
    /\ lastSearch = NoSearch
    /\ supplied = {}

\* POST /sequencesearch reaching sequencesearch.sequence_search(flags, fileName)
SequenceSearch ==
    \E userFlags \in UserFlagMaps :
        LET out == sequence_search(userFlags, "tmp.fsa", globalFlags, exactFlags)
        IN  /\ globalFlags' = out.globalFlags
            /\ exactFlags' = out.exactFlags
            /\ lastSearch' = [called |-> TRUE, userFlags |-> userFlags,
                              before |-> <<globalFlags, exactFlags>>,
                              runs |-> out.runs]
            /\ supplied' = IF DictHas(userFlags, "search_exact") THEN supplied
                           ELSE supplied \cup {userFlags[i] : i \in DOMAIN userFlags}
            /\ UNCHANGED <<clusterVars, queryVars, cacheVars, gwVars, xVars>>

----------------------------------------------------------------------------
(* cluster.py: the .uc report parsers *)

\* a report line after line.split(): the columns the parsers read
\* (c0 = record type, c1 = cluster id, c8 = member part id)
MaxLines == 3
RecordTypes == {"H", "S", "C"}
ClusterIds == {0, 1}
Parts == {"p1", "p2", "p3"}
Lines == [c0 : RecordTypes, c1 : ClusterIds, c8 : Parts]
Reports == UNION {[1..n -> Lines] : n \in 0..MaxLines}

\* first loop: cluster2parts, a dict from cluster id to the set of its parts
RECURSIVE cluster2parts_of(_, _)
cluster2parts_of(lines, cluster2parts) ==
    IF lines = << >> THEN cluster2parts
    ELSE LET line == Head(lines)
             c2p == IF DictHas(cluster2parts, line.c1) THEN cluster2parts
                    ELSE DictSet(cluster2parts, line.c1, {})
         IN  cluster2parts_of(Tail(lines),
                IF line.c0 = "H" \/ line.c0 = "S"
                THEN DictSet(c2p, line.c1, DictGet(c2p, line.c1) \cup {line.c8})
                ELSE cluster2parts)

\* second loop: clusters[part] = parts.difference({part}), cluster by cluster
RECURSIVE clusters_of(_, _)
clusters_of(cluster2parts, clusters) ==
    IF cluster2parts = << >> THEN clusters
    ELSE LET parts == Head(cluster2parts)[2]
         IN  clusters_of(Tail(cluster2parts),
                [p \in (DOMAIN clusters) \cup parts |->
                    IF p \in parts THEN parts \ {p} ELSE clusters[p]])

uclust2clusters(lines) == clusters_of(cluster2parts_of(lines, << >>), << >>)

InitCluster ==
    /\ report \in Reports
    /\ clustersOut = [done |-> FALSE, clusters |-> << >>]

Uclust2clusters ==
    /\ ~clustersOut.done
    /\ clustersOut' = [done |-> TRUE, clusters |-> uclust2clusters(report)]
    /\ UNCHANGED <<report, seqVars, queryVars, cacheVars, gwVars, xVars>>

----------------------------------------------------------------------------
(* cluster.py: analyze_uclust and uclust2uris *)

(* The report lines these two parsers read: c3 is the identity column and c9
   the hit target.  An H line carries a percentage and a target; S and C
   lines carry "*" in both columns.  Percentages are kept in tenths. *)
IdentityTexts == {"90.0", "80.0"}
UcLines ==
    [c0 : {"H"}, c1 : {0}, c3 : IdentityTexts, c8 : {"query"}, c9 : {"p1", "p2"}]
        \cup [c0 : {"S", "C"}, c1 : {0}, c3 : {"*"}, c8 : {"query"}, c9 : {"*"}]
UcReports == UNION {[1..n -> UcLines] : n \in 0..MaxLines}

\* float(line[3]), in tenths; -1 stands for the ValueError of a text that is
\* not a number
float(text) ==
    CASE text = "90.0" -> 900
      [] text = "80.0" -> 800
      [] OTHER -> -1

\* total_identity / hits, in tenths: the whole tenths and what is left over
Quotient(total, n) == [whole |-> total \div n, rest |-> total % n]

\* a planted fault: every counted line is taken for a hit
RECURSIVE analyze_loop_all_hits(_, _)
analyze_loop_all_hits(lines, acc) ==
    IF lines = << >> THEN acc
    ELSE LET line == Head(lines)
             record_type == line.c0
         IN  analyze_loop_all_hits(Tail(lines),
                IF record_type \in {"H", "S"}
                THEN [acc EXCEPT !.total_parts = @ + 1,
                                 !.total_identity = @ + (IF line.c0 = "H" THEN float(line.c3) ELSE 0),
                                 !.hits = @ + 1]
                ELSE acc)

\* the for line in lines loop of analyze_uclust
RECURSIVE analyze_loop(_, _)
analyze_loop(lines, acc) ==
    IF lines = << >> THEN acc
    ELSE LET line == Head(lines)
             record_type == line.c0
         IN  analyze_loop(Tail(lines),
                IF record_type \in {"H", "S"}
                THEN IF line.c0 = "H"
                     THEN [acc EXCEPT !.total_parts = @ + 1,
                                      !.total_identity = @ + float(line.c3),
                                      !.hits = @ + 1]
                     ELSE [acc EXCEPT !.total_parts = @ + 1]
                ELSE acc)

\* what analyze_uclust counted and the lines it passed to utils.log_indexing
analyze_uclust(lines) ==
    LET acc == analyze_loop(lines, [total_parts |-> 0, total_identity |-> 0, hits |-> 0])
    IN  [done |-> TRUE, total_parts |-> acc.total_parts,
         total_identity |-> acc.total_identity, hits |-> acc.hits,
         log |-> <<[text |-> "parts: ", n |-> acc.total_parts],
                   [text |-> "hits: ", n |-> acc.hits]>> \o
                 (IF acc.hits > 0
                  THEN <<[text |-> "average hit identity: ",
                          n |-> Quotient(acc.total_identity, acc.hits)]>>
                  ELSE << >>)]

AnalyzeUclust ==
    /\ ~analysis.done
    /\ analysis' = analyze_uclust(report)
    /\ UNCHANGED <<seqVars, clusterVars, queryVars, cacheVars, gwVars,
                   dedup, uris, reader, corpus>>

\* a planted fault: the member column is read instead of the target column
RECURSIVE uclust2uris_member(_)
uclust2uris_member(lines) ==
    IF lines = << >> THEN {}
    ELSE LET line == Head(lines)
         IN  (IF line.c0 = "H" THEN {line.c8} ELSE {}) \cup uclust2uris_member(Tail(lines))

\* uclust2uris(fileName), lines being the lines of that file
RECURSIVE uclust2uris(_)
uclust2uris(lines) ==
    IF lines = << >> THEN {}
    ELSE LET line == Head(lines)
         IN  (IF line.c0 = "H" THEN {line.c9} ELSE {}) \cup uclust2uris(Tail(lines))

\* the last statement of sequence_search: return cluster.uclust2uris(...)
Uclust2uris ==
    /\ ~uris.done
    /\ uris' = [done |-> TRUE, uris |-> uclust2uris(report)]
    /\ UNCHANGED <<seqVars, clusterVars, queryVars, cacheVars, gwVars,
                   dedup, analysis, reader, corpus>>

----------------------------------------------------------------------------
(* query.py: the SPARQL query layer *)

Min(a, b) == IF a < b THEN a ELSE b
Max(a, b) == IF a < b THEN b ELSE a

\* page_query's page size
limit == 10000

\* the endpoints of the model: the values sparql_endpoint may be configured
\* to, and the registries the directory service may list
PrimaryEndpoints == {"http://a/sparql?", "http://b/sparql?"}
Instances == {"http://a", "http://c"}

\* instance['instanceUrl'] + '/sparql?'
SparqlUrl(instanceUrl) ==
    CASE instanceUrl = "http://a" -> "http://a/sparql?"
      [] instanceUrl = "http://b" -> "http://b/sparql?"
      [] OTHER -> "http://c/sparql?"

Endpoints == PrimaryEndpoints \cup {SparqlUrl(i) : i \in Instances}

\* what the network and a store do with a request: requests.get raises
\* (reach = FALSE) or returns a response with a status code; a store that
\* answers 200 holds n rows for the query
Failing == {[reach |-> FALSE, status |-> 0, n |-> 0],
            [reach |-> TRUE, status |-> 500, n |-> 0]}
Answering(sizes) == [reach : {TRUE}, status : {200}, n : sizes]

(* Row lists are kept run-length encoded: a run
   [pairs |-> p, first |-> f, count |-> c] stands for the c consecutive rows
   f .. f+c-1 of one answer, row k being the dict whose pairs are
   <<key, <<source, k>>>> for each <<key, source>> of p, in that order.  A row
   list is a sequence of runs with count > 0. *)
Count(rows) ==
    LET RECURSIVE sum(_)
        sum(i) == IF i = 0 THEN 0 ELSE rows[i].count + sum(i - 1)
    IN  sum(Len(rows))

\* r.json()['results']['bindings'] of a store holding n rows, for a query that
\* ends in OFFSET offset LIMIT limit: every binding maps a variable to an
\* object with a value field
StorePage(endpoint, full_query, n) ==
    LET cnt == Min(full_query.limit, Max(n - full_query.offset, 0))
    IN  IF cnt = 0 THEN << >>
        ELSE << [pairs |-> << <<"subject", [value |-> <<endpoint, full_query.text>>]>> >>,
                 first |-> full_query.offset + 1, count |-> cnt] >>

\* result[key] = binding[key]['value'] for key in binding, for every binding
RowsOf(bindings) ==
    [i \in DOMAIN bindings |->
        [bindings[i] EXCEPT !.pairs =
            [j \in DOMAIN @ |-> <<@[j][1], @[j][2].value>>]]]

\* str(r.status_code)
StatusText(status) == IF status = 500 THEN "500" ELSE "0"

\* a line of the operational log: utils.log(text + arg)
LogLine(text, arg) == [text |-> text, arg |-> arg]

\* ok = FALSE stands for the raised Exception(error); requests is what the
\* call sent over the wire and log what it passed to utils.log
send_query(query, endpoint, cfg, net) ==
    LET request == [endpoint |-> endpoint, query |-> query,
                    default_graph_uri |-> (endpoint = cfg.sparql_endpoint)]
        r == net[endpoint]
    IN  IF ~r.reach
        THEN [ok |-> FALSE, error |-> "Local SynBioHub isn't responding",
              rows |-> << >>, requests |-> <<request>>,
              log |-> <<LogLine("[ERROR] exception when connecting: ", endpoint)>>]
        ELSE IF r.status # 200
        THEN [ok |-> FALSE, error |-> "url is not responding",
              rows |-> << >>, requests |-> <<request>>,
              log |-> <<LogLine("[ERROR] Got status code when querying: ", StatusText(r.status)),
                        LogLine("r.text", endpoint)>>]
        ELSE [ok |-> TRUE, error |-> "",
              rows |-> RowsOf(StorePage(endpoint, query, r.n)),
              requests |-> <<request>>, log |-> << >>]

\* query_prefix + query + 'OFFSET ' + str(offset) + ' LIMIT ' + str(limit)
FullQuery(query, offset) ==
    [prefix |-> TRUE, text |-> query.text, from |-> query.from,
     offset |-> offset, limit |-> limit]

\* a planted fault: the loop stops after a page that is not longer than limit
RECURSIVE page_loop_stop_early(_, _, _, _, _, _, _)
page_loop_stop_early(query, endpoint, cfg, net, offset, results, requests) ==
    LET new == send_query(FullQuery(query, offset), endpoint, cfg, net)
    IN  IF ~new.ok
        THEN [ok |-> FALSE, error |-> new.error, rows |-> << >>,
              requests |-> requests \o new.requests, log |-> new.log]
        ELSE IF Count(new.rows) <= limit
        THEN [ok |-> TRUE, error |-> "", rows |-> results \o new.rows,
              requests |-> requests \o new.requests, log |-> << >>]
        ELSE page_loop_stop_early(query, endpoint, cfg, net, offset + limit,
                       results \o new.rows, requests \o new.requests)

\* the while True loop of page_query; requests is the wire traffic so far
RECURSIVE page_loop(_, _, _, _, _, _, _)
page_loop(query, endpoint, cfg, net, offset, results, requests) ==
    LET new == send_query(FullQuery(query, offset), endpoint, cfg, net)
    IN  IF ~new.ok
        THEN [ok |-> FALSE, error |-> new.error, rows |-> << >>,
              requests |-> requests \o new.requests, log |-> new.log]
        ELSE IF Count(new.rows) # limit
        THEN [ok |-> TRUE, error |-> "", rows |-> results \o new.rows,
              requests |-> requests \o new.requests, log |-> << >>]
        ELSE page_loop(query, endpoint, cfg, net, offset + limit,
                       results \o new.rows, requests \o new.requests)

page_query(query, endpoint, cfg, net) ==
    LET stripped == IF endpoint # cfg.sparql_endpoint
                    THEN [query EXCEPT !.from = FALSE]   \* re.sub(r'FROM.*\n', '', query)
                    ELSE query
        out == page_loop(stripped, endpoint, cfg, net, 0, << >>, << >>)
    IN  [out EXCEPT !.log = <<LogLine("Current endpoint: ", endpoint)>> \o @]

\* json.dumps(result, sort_keys=True): the rows' pairs in key order
VarOrder == <<"sequence", "subject">>

\* a planted fault: json.dumps without sort_keys, the pairs in insertion order
Dumps_unsorted(result) ==
    [json |-> [i \in 1..(2 * Len(result.pairs)) |->
                  IF i % 2 = 1 THEN result.pairs[(i + 1) \div 2][1]
                  ELSE result.pairs[i \div 2][2]],
     first |-> result.first, count |-> result.count]

\* the dumped text as its tokens: key, value, key, value, ... in key order
Dumps(result) ==
    LET keys == SelectSeq(VarOrder, LAMBDA k : DictHas(result.pairs, k))
    IN  [json |-> [i \in 1..(2 * Len(keys)) |->
                      IF i % 2 = 1 THEN keys[(i + 1) \div 2]
                      ELSE DictGet(result.pairs, keys[i \div 2])],
         first |-> result.first, count |-> result.count]

\* json.loads of a dumped row: the dict with its keys in the dumped order
Loads(dumped) ==
    [pairs |-> [i \in 1..(Len(dumped.json) \div 2) |->
                   <<dumped.json[2 * i - 1], dumped.json[2 * i]>>],
     first |-> dumped.first, count |-> dumped.count]

\* the list comprehension over the set `deduped`: Python fixes no order for
\* it, so the returned list is modelled by the set of its rows.  Pages start
\* at multiples of limit, so two runs of one call hold the same rows or
\* disjoint rows, and the set of runs stands for the set of rows.
deduplicate_results(results) ==
    LET deduped == {Dumps(results[i]) : i \in DOMAIN results}
    IN  {Loads(d) : d \in deduped}

\* a planted fault: a failing endpoint is skipped and the rest is returned
RECURSIVE endpoint_loop_skip(_, _, _, _, _, _, _)
endpoint_loop_skip(query, endpoints, cfg, net, results, requests, lg) ==
    IF endpoints = << >>
    THEN [ok |-> TRUE, error |-> "", rows |-> deduplicate_results(results),
          requests |-> requests, log |-> lg]
    ELSE LET page == page_query(query, Head(endpoints), cfg, net)
         IN  endpoint_loop_skip(query, Tail(endpoints), cfg, net,
                                results \o page.rows, requests \o page.requests,
                                lg \o page.log)

\* the for endpoint in endpoints loop of query_sparql
RECURSIVE endpoint_loop(_, _, _, _, _, _, _)
endpoint_loop(query, endpoints, cfg, net, results, requests, lg) ==
    IF endpoints = << >>
    THEN [ok |-> TRUE, error |-> "", rows |-> deduplicate_results(results),
          requests |-> requests, log |-> lg]
    ELSE LET page == page_query(query, Head(endpoints), cfg, net)
         IN  IF ~page.ok
             THEN [ok |-> FALSE, error |-> "Endpoint not responding", rows |-> {},
                   requests |-> requests \o page.requests,
                   log |-> lg \o page.log
                            \o <<LogLine("[ERROR] failed querying:", Head(endpoints))>>]
             ELSE endpoint_loop(query, Tail(endpoints), cfg, net,
                                results \o page.rows, requests \o page.requests,
                                lg \o page.log)

\* the endpoints list query_sparql builds
EndpointsOf(cfg, instances) ==
    <<cfg.sparql_endpoint>> \o
        (IF cfg.distributed_search
         THEN [i \in DOMAIN instances |-> SparqlUrl(instances[i].instanceUrl)]
         ELSE << >>)

\* ok = FALSE stands for the raised Exception(error); requests is the wire
\* traffic of the call
query_sparql(query, cfg, instances, net) ==
    endpoint_loop(query, EndpointsOf(cfg, instances), cfg, net, << >>, << >>, << >>)

(* the configurations POST /config may write *)
Identities == {"0.8", "0.9"}
Searches == {"vsearch", "usearch"}
Configs == [uclust_identity : Identities, which_search : Searches,
            sparql_endpoint : PrimaryEndpoints, distributed_search : BOOLEAN]

InitConfig == [uclust_identity |-> "0.8", which_search |-> "vsearch",
               sparql_endpoint |-> "http://a/sparql?", distributed_search |-> FALSE]

\* the directory service lists at most MaxPeers registries
MaxPeers == 2
PeerLists == UNION {[1..n -> [instanceUrl : Instances]] : n \in 0..MaxPeers}

QueryTexts == {1, 2}
Queries == [text : QueryTexts, from : BOOLEAN]

NoQuery == [called |-> "none", query |-> << >>, endpoint |-> "", net |-> << >>,
            out |-> << >>]

\* a call of query_sparql(query), under whatever the endpoints do meanwhile
QuerySparql(queries, sizes) ==
    \E query \in queries, net \in [Endpoints -> Failing \cup Answering(sizes)] :
        /\ lastQuery' = [called |-> "query_sparql", query |-> query, endpoint |-> "",
                         net |-> net, out |-> query_sparql(query, config, wor, net)]
        /\ UNCHANGED <<config, wor, seqVars, clusterVars, cacheVars, gwVars, xVars>>

\* a call of page_query(query, endpoint)
PageQuery(queries, sizes) ==
    \E query \in queries, endpoint \in Endpoints, b \in Failing \cup Answering(sizes) :
        LET net == [e \in Endpoints |-> b]
        IN  /\ lastQuery' = [called |-> "page_query", query |-> query,
                             endpoint |-> endpoint, net |-> net,
                             out |-> page_query(query, endpoint, config, net)]
            /\ UNCHANGED <<config, wor, seqVars, clusterVars, cacheVars, gwVars, xVars>>

InitQuery ==
    /\ config = InitConfig
    /\ wor = << >>
    /\ lastQuery = NoQuery

----------------------------------------------------------------------------
(* query.py: deduplicate_results on its own *)

\* the rows handed to deduplicate_results: dicts over the variables of
\* VarOrder, in every insertion order, at most MaxRows of them
MaxRows == 3
RowValues == {<<"http://a/sparql?", 1>>, <<"http://b/sparql?", 1>>}
RowDicts ==
    {<< <<k, v>> >> : k \in {"sequence", "subject"}, v \in RowValues}
        \cup {<< <<"subject", v>>, <<"sequence", w>> >> : v \in RowValues, w \in RowValues}
        \cup {<< <<"sequence", w>>, <<"subject", v>> >> : v \in RowValues, w \in RowValues}
DedupRows == {[pairs |-> d, first |-> 1, count |-> 1] : d \in RowDicts}
DedupInputs == UNION {[1..n -> DedupRows] : n \in 0..MaxRows}

\* the lists a set of rows can be returned as
ListsOf(rows) ==
    {l \in [1..Cardinality(rows) -> rows] : {l[i] : i \in DOMAIN l} = rows}

NoDedup == [done |-> FALSE, input |-> << >>, out |-> {}, again |-> {}]

\* deduplicate_results(results), and deduplicate_results of what it returned
Deduplicate ==
    /\ ~dedup.done
    /\ LET out == deduplicate_results(dedup.input)
       IN  dedup' = [dedup EXCEPT !.done = TRUE, !.out = out,
                        !.again = {deduplicate_results(l) : l \in ListsOf(out)}]
    /\ UNCHANGED <<seqVars, clusterVars, queryVars, cacheVars, gwVars,
                   analysis, uris, reader, corpus>>

----------------------------------------------------------------------------
(* query.py: memoized_query_sparql, query_sparql under @lru_cache(maxsize=32) *)

maxsize == 32

CacheKeys(c) == {c[i].key : i \in DOMAIN c}

\* the entries of c without the one at position i
Without(c, i) == [j \in 1..(Len(c) - 1) |-> IF j < i THEN c[j] ELSE c[j + 1]]

\* a planted fault: a hit leaves the entry where it is (first in, first out)
memoized_query_sparql_fifo(query, c, cfg, instances, net) ==
    IF query \in CacheKeys(c)
    THEN LET i == CHOOSE i \in DOMAIN c : c[i].key = query
         IN  [cache |-> c, hit |-> TRUE,
              out |-> [ok |-> TRUE, error |-> "", rows |-> c[i].value,
                       requests |-> << >>, log |-> << >>]]
    ELSE LET out == query_sparql(query, cfg, instances, net)
         IN  IF ~out.ok
             THEN [cache |-> c, hit |-> FALSE, out |-> out]
             ELSE [cache |-> Append(IF Len(c) >= maxsize THEN Tail(c) ELSE c,
                                    [key |-> query, value |-> out.rows]),
                   hit |-> FALSE, out |-> out]

\* a planted fault: a cached query is sent to the endpoints again and its
\* entry refreshed
memoized_query_sparql_refetch(query, c, cfg, instances, net) ==
    LET out == query_sparql(query, cfg, instances, net)
        rest == IF query \in CacheKeys(c)
                THEN Without(c, CHOOSE i \in DOMAIN c : c[i].key = query)
                ELSE IF Len(c) >= maxsize THEN Tail(c) ELSE c
    IN  IF ~out.ok
        THEN [cache |-> c, hit |-> FALSE, out |-> out]
        ELSE [cache |-> Append(rest, [key |-> query, value |-> out.rows]),
              hit |-> query \in CacheKeys(c), out |-> out]

\* a planted fault: a failure is swallowed and cached as an empty result
memoized_query_sparql_cache_failure(query, c, cfg, instances, net) ==
    IF query \in CacheKeys(c)
    THEN LET i == CHOOSE i \in DOMAIN c : c[i].key = query
         IN  [cache |-> Append(Without(c, i), c[i]), hit |-> TRUE,
              out |-> [ok |-> TRUE, error |-> "", rows |-> c[i].value,
                       requests |-> << >>, log |-> << >>]]
    ELSE LET out == query_sparql(query, cfg, instances, net)
         IN  [cache |-> Append(IF Len(c) >= maxsize THEN Tail(c) ELSE c,
                               [key |-> query, value |-> out.rows]),
              hit |-> FALSE, out |-> out]

\* the wrapper lru_cache builds: a hit returns the stored value and makes the
\* entry the most recently used one; a miss calls query_sparql, stores nothing
\* if it raises, and otherwise stores the result, dropping the least recently
\* used entry when the cache is full
memoized_query_sparql(query, c, cfg, instances, net) ==
    IF query \in CacheKeys(c)
    THEN LET i == CHOOSE i \in DOMAIN c : c[i].key = query
         IN  [cache |-> Append(Without(c, i), c[i]), hit |-> TRUE,
              out |-> [ok |-> TRUE, error |-> "", rows |-> c[i].value,
                       requests |-> << >>, log |-> << >>]]
    ELSE LET out == query_sparql(query, cfg, instances, net)
         IN  IF ~out.ok
             THEN [cache |-> c, hit |-> FALSE, out |-> out]
             ELSE [cache |-> Append(IF Len(c) >= maxsize THEN Tail(c) ELSE c,
                                    [key |-> query, value |-> out.rows]),
                   hit |-> FALSE, out |-> out]

\* memoized_query_sparql.cache_clear()
cache_clear(c) == << >>

(* the workload of the cache: NumQueries query texts, issued for the first
   time in the order 1, 2, ..., and at most MaxExtras other steps: calls that
   issue one of the texts 1..MaxRepeatText again, calls with the next new
   text during which the endpoint fails, clears *)
NumQueries == 34
MaxExtras == 1
MaxRepeatText == 2

InitCache ==
    /\ cache = << >>
    /\ clock = 0
    /\ lastUse = [t \in 1..NumQueries |-> 0]
    /\ workload = [fresh |-> 0, extras |-> 0]

\* a call of memoized_query_sparql(query) while the endpoints behave as net;
\* the clock ticks when the call returns a result, and lastUse keeps the tick
\* of the last use of every cached text (0 for a text that is not cached)
CachedCall(query, net) ==
    LET call == memoized_query_sparql(query, cache, config, wor, net)
    IN  /\ cache' = call.cache
        /\ lastQuery' = [called |-> "memoized_query_sparql", query |-> query,
                         endpoint |-> "", net |-> net, out |-> call.out,
                         hit |-> call.hit, endpoints |-> EndpointsOf(config, wor),
                         \* history: the value the cache held for this text
                         \* before the call, and whether the call before
                         \* this one was a failed call with the same text
                         cached |-> IF query \in CacheKeys(cache)
                                    THEN <<(cache[CHOOSE i \in DOMAIN cache :
                                                    cache[i].key = query]).value>>
                                    ELSE << >>,
                         retry |-> /\ lastQuery.called = "memoized_query_sparql"
                                   /\ lastQuery.query = query
                                   /\ ~lastQuery.out.ok]
        /\ clock' = IF lastQuery'.out.ok THEN clock + 1 ELSE clock
        /\ lastUse' = [t \in DOMAIN lastUse |->
                        IF lastQuery'.out.ok /\ t = query.text THEN clock'
                        ELSE IF \E i \in DOMAIN cache' : cache'[i].key.text = t
                             THEN lastUse[t]
                             ELSE 0]

UpNet == [e \in Endpoints |-> [reach |-> TRUE, status |-> 200, n |-> 1]]
DownNet == [e \in Endpoints |-> [reach |-> TRUE, status |-> 500, n |-> 0]]

\* the first successful call with the next query text
CachedFresh ==
    /\ workload.fresh < NumQueries
    /\ CachedCall([text |-> workload.fresh + 1, from |-> FALSE], UpNet)
    /\ workload' = [workload EXCEPT !.fresh = @ + 1]
    /\ UNCHANGED <<config, wor, seqVars, clusterVars, gwVars, xVars>>

\* a call with a query text issued before: a hit, or a miss after an eviction
\* or a clear
CachedRepeat ==
    /\ workload.extras < MaxExtras
    /\ \E t \in 1..Min(workload.fresh, MaxRepeatText) :
            CachedCall([text |-> t, from |-> FALSE], UpNet)
    /\ workload' = [workload EXCEPT !.extras = @ + 1]
    /\ UNCHANGED <<config, wor, seqVars, clusterVars, gwVars, xVars>>

\* a call with the next new text during which the endpoint fails
CachedFailing ==
    /\ workload.extras < MaxExtras
    /\ workload.fresh < NumQueries
    /\ CachedCall([text |-> workload.fresh + 1, from |-> FALSE], DownNet)
    /\ workload' = [workload EXCEPT !.extras = @ + 1]
    /\ UNCHANGED <<config, wor, seqVars, clusterVars, gwVars, xVars>>

\* the stores answering with more rows than before
GrownNet == [e \in Endpoints |-> [reach |-> TRUE, status |-> 200, n |-> 2]]

\* a call with a query text issued before, after the stores have changed or
\* while they are down
CachedRepeatChanged ==
    /\ workload.extras < MaxExtras
    /\ \E t \in 1..Min(workload.fresh, MaxRepeatText), net \in {GrownNet, DownNet} :
            CachedCall([text |-> t, from |-> FALSE], net)
    /\ workload' = [workload EXCEPT !.extras = @ + 1]
    /\ UNCHANGED <<config, wor, seqVars, clusterVars, gwVars, xVars>>

CacheClear ==
    /\ workload.extras < MaxExtras
    /\ cache' = cache_clear(cache)
    /\ clock' = 0
    /\ lastUse' = [t \in DOMAIN lastUse |-> 0]
    /\ workload' = [workload EXCEPT !.extras = @ + 1]
    /\ UNCHANGED <<queryVars, seqVars, clusterVars, gwVars, xVars>>

----------------------------------------------------------------------------
(* cluster.py: what the module computes when it is imported, and run_uclust *)

\* usearch_binary_filename as the module-level if/elif chain leaves it
BinaryFor(plat, whichSearch) ==
    IF plat = "linux" \/ plat = "linux2"
    THEN (IF whichSearch = "usearch" THEN "usearch/usearch10.0.240_i86linux32"
          ELSE IF whichSearch = "vsearch" THEN "usearch/vsearch_linux"
          ELSE "unset")
    ELSE IF plat = "darwin"
    THEN (IF whichSearch = "usearch" THEN "usearch/usearch11.0.667_i86osx32"
          ELSE IF whichSearch = "vsearch" THEN "usearch/vsearch_macos"
          ELSE "unset")
    ELSE "unset"

\* the module-level assignments, run once, with the configuration of that time
ImportCluster(cfg) ==
    [uclust_identity |-> cfg.uclust_identity,
     usearch_binary_filename |-> BinaryFor(platform, cfg.which_search)]

\* the argument vector run_uclust hands to subprocess.Popen
run_uclust(mod) ==
    <<mod.usearch_binary_filename, "-cluster_fast", "usearch/sequences.fsa",
      "-id", mod.uclust_identity, "-sort", "length", "-uc", "usearch/uclust_results.uc">>

sequence_query == [text |-> 0, from |-> FALSE]

----------------------------------------------------------------------------
(* explorer.py: the HTTP gateway *)

\* exceptions: str(e) is the msg field
str(e) == e.msg

EndpointDown == [type |-> "Exception", msg |-> "Endpoint not responding"]
ListIndex == [type |-> "IndexError", msg |-> "list index out of range"]
\* an exception raised without arguments, such as the MemoryError of a
\* f.read() or a bare `raise Exception()`: its str() is the empty string
NoMessage == [type |-> "MemoryError", msg |-> ""]
\* what a stage that reads files, runs tools or calls the other components
\* can raise besides an endpoint failure
Faults == {ListIndex, NoMessage}
NoFault == [type |-> "none", msg |-> "none"]

\* @app.errorhandler(Exception): the log after the call and the response
handle_error(e, lg) ==
    [log |-> Append(lg, LogLine("[ERROR] Returning error ", str(e))),
     response |-> [route |-> "error", status |-> 500, body |-> [error |-> str(e)]]]

\* a planted fault: the cache is cleared before the index is rebuilt
UpdateStages_clear_first ==
    <<"start_time", "clusters", "uri2rank", "cache_clear", "index", "end_time">>

\* a planted fault: the rank table is rebuilt and saved before the clusters
UpdateStages_rank_first ==
    <<"start_time", "uri2rank", "clusters", "index", "cache_clear", "end_time">>

\* the steps of a full update, in the order update() performs them
UpdateStages ==
    <<"start_time", "clusters", "uri2rank", "index", "cache_clear", "end_time">>

Pending == [route |-> "pending", status |-> 0, body |-> "none"]
Ok(route, body) == [route |-> route, status |-> 200, body |-> body]

\* the index listings the index engine may answer the startup hook with
Null == "null"
IndexListings == {<< >>, <<"parts">>, <<"parts", "other">>}

\* the number of requests the gateway serves
MaxRequests == 3

\* the parts of the store, and the index document of a part: the generation
\* of the rank table it was scored with, NoDoc if the index has none
Subjects == {"p1", "p2"}
NoDoc == -1

GatewayReports ==
    {<< >>, <<[c0 |-> "S", c1 |-> 0, c8 |-> "p1"], [c0 |-> "H", c1 |-> 0, c8 |-> "p2"]>>}

InitGateway ==
    /\ persisted = [clusters |-> [gen |-> 0, map |-> << >>], uri2rank |-> [gen |-> 0],
                    update_start_time |-> 0, update_end_time |-> 0]
    /\ log = << >>
    /\ index = [rank |-> [gen |-> 0], docs |-> [s \in Subjects |-> NoDoc]]
    /\ now = 1
    /\ fasta = {}
    /\ clusterMod = ImportCluster(config)
    /\ uclustRun = [ran |-> FALSE, args |-> << >>, cfg |-> config]
    /\ update = [pc |-> 0, gen |-> 0, effects |-> << >>, failed |-> "none",
                 before |-> [cache |-> << >>, persisted |-> persisted]]
    /\ gateway = [first_done |-> FALSE, listing |-> << >>, triggered |-> FALSE,
                  served |-> 0, last |-> "none"]
    /\ response = Pending

Idle == update.pc = 0
Accepting == gateway.first_done /\ gateway.served < MaxRequests
Stage == IF update.pc = 0 THEN "idle" ELSE UpdateStages[update.pc]

\* @app.before_first_request: the hook runs when the first request arrives;
\* if it raises, that request is answered by handle_error
Startup ==
    /\ ~gateway.first_done
    /\ \E es_indices \in IndexListings :
        LET started == Append(log, LogLine("SBOLExplorer started :)", ""))
        IN  IF es_indices = << >>        \* es_indices[0] raises IndexError
            THEN /\ log' = handle_error(ListIndex, started).log
                 /\ response' = handle_error(ListIndex, started).response
                 /\ gateway' = [gateway EXCEPT !.first_done = TRUE,
                                               !.listing = es_indices]
            ELSE IF es_indices[1] = Null
            THEN /\ log' = Append(started, LogLine("Index not found, creating new index.", ""))
                 /\ gateway' = [gateway EXCEPT !.first_done = TRUE,
                                               !.listing = es_indices,
                                               !.triggered = TRUE]
                 /\ UNCHANGED response
            ELSE /\ log' = started
                 /\ gateway' = [gateway EXCEPT !.first_done = TRUE,
                                               !.listing = es_indices]
                 /\ UNCHANGED response
    /\ UNCHANGED <<xVars, persisted, index, now, fasta, clusterMod, uclustRun, update,
                   seqVars, clusterVars, queryVars, cacheVars>>

\* the configurations a POST /config writes here: the current one with one
\* key changed
OneKeyChanged(cfg) ==
    {c \in Configs :
        Cardinality({k \in {"uclust_identity", "which_search", "sparql_endpoint",
                            "distributed_search"} : c[k] # cfg[k]}) = 1}

\* POST /config
ConfigPost ==
    /\ Accepting
    /\ \E new_config \in OneKeyChanged(config) :
        /\ config' = new_config                            \* utils.set_config
        /\ log' = Append(log, LogLine("Successfully updated config", ""))
        /\ response' = Ok("/config", new_config)
    /\ gateway' = [gateway EXCEPT !.served = @ + 1, !.last = "/config"]
    /\ UNCHANGED <<xVars, wor, lastQuery, persisted, index, now, fasta, clusterMod, uclustRun,
                   update, seqVars, clusterVars, cacheVars>>

\* GET /: search.search runs the query through the cached entry point
SparqlSearch ==
    /\ Accepting
    /\ \E text \in QueryTexts, net \in {UpNet, DownNet} :
        /\ CachedCall([text |-> text, from |-> FALSE], net)
        /\ IF lastQuery'.out.ok
           THEN /\ log' = Append(log \o lastQuery'.out.log,
                                 LogLine("Successfully sparql searched", ""))
                /\ response' = Ok("/", lastQuery'.out.rows)
           ELSE /\ log' = handle_error(EndpointDown, log \o lastQuery'.out.log).log
                /\ response' = handle_error(EndpointDown, log).response
    /\ gateway' = [gateway EXCEPT !.served = @ + 1, !.last = "/"]
    /\ UNCHANGED <<xVars, config, wor, workload, persisted, index, now, fasta, clusterMod,
                   uclustRun, update, seqVars, clusterVars>>

(* GET /update without subject, step by step *)

\* the step went through: the handler moves on, or returns after the last one
Proceed(lines, effect) ==
    LET last == update.pc = Len(UpdateStages)
    IN  /\ update' = [update EXCEPT !.pc = IF last THEN 0 ELSE @ + 1,
                                    !.effects = Append(@, effect)]
        /\ log' = log \o lines \o
                    (IF last THEN <<LogLine("Successfully updated entire index", "")>>
                     ELSE << >>)
        /\ response' = IF last THEN Ok("/update", "Successfully updated entire index")
                       ELSE response

\* the step raised e: handle_error answers, the handler is left
Raise(lines, e) ==
    /\ update' = [update EXCEPT !.pc = 0, !.failed = Stage]
    /\ log' = handle_error(e, log \o lines).log
    /\ response' = handle_error(e, log \o lines).response

Effect(stage) == [stage |-> stage, rank |-> [gen |-> 0]]

UpdateBegin ==
    /\ Accepting
    /\ update' = [pc |-> 1, gen |-> update.gen + 1, effects |-> << >>,
                  failed |-> "none",
                  before |-> [cache |-> cache, persisted |-> persisted]]
    /\ response' = Pending
    /\ gateway' = [gateway EXCEPT !.served = @ + 1, !.last = "/update"]
    /\ UNCHANGED <<xVars, persisted, log, index, now, fasta, clusterMod, uclustRun,
                   seqVars, clusterVars, queryVars, cacheVars>>

\* utils.save_update_start_time()
UpdateStartTime ==
    /\ Stage = "start_time"
    /\ persisted' = [persisted EXCEPT !.update_start_time = now]
    /\ now' = now + 1
    /\ Proceed(<< >>, Effect("start_time"))
    /\ UNCHANGED <<xVars, index, fasta, clusterMod, uclustRun, gateway,
                   seqVars, clusterVars, queryVars, cacheVars>>

\* clusters = cluster.update_clusters(); utils.save_clusters(clusters)
UpdateClusters ==
    /\ Stage = "clusters"
    /\ \E net \in {UpNet, DownNet}, lines \in GatewayReports, fault \in Faults \cup {NoFault} :
        LET sequences_response == query_sparql(sequence_query, config, wor, net)
        IN  IF ~sequences_response.ok
            THEN /\ Raise(sequences_response.log, EndpointDown)
                 /\ UNCHANGED <<persisted, fasta, report, uclustRun>>
            ELSE /\ fasta' = sequences_response.rows            \* write_fasta
                 /\ uclustRun' = [ran |-> TRUE, args |-> run_uclust(clusterMod),
                                  cfg |-> config]
                 /\ report' = lines                             \* the tool's report
                 /\ IF fault # NoFault
                    THEN /\ Raise(sequences_response.log, fault)
                         /\ UNCHANGED persisted
                    ELSE /\ persisted' = [persisted EXCEPT !.clusters =
                                [gen |-> update.gen, map |-> uclust2clusters(lines)]]
                         /\ Proceed(sequences_response.log, Effect("clusters"))
    /\ UNCHANGED <<xVars, index, now, clusterMod, gateway, clustersOut,
                   seqVars, queryVars, cacheVars>>

\* uri2rank = pagerank.update_pagerank(); utils.save_uri2rank(uri2rank)
UpdatePagerank ==
    /\ Stage = "uri2rank"
    /\ \E fault \in Faults \cup {NoFault} :
        IF fault # NoFault
        THEN /\ Raise(<< >>, fault)
             /\ UNCHANGED persisted
        ELSE /\ persisted' = [persisted EXCEPT !.uri2rank = [gen |-> update.gen]]
             /\ Proceed(<< >>, Effect("uri2rank"))
    /\ UNCHANGED <<xVars, index, now, fasta, clusterMod, uclustRun, gateway,
                   seqVars, clusterVars, queryVars, cacheVars>>

\* utils.get_uri2rank()
get_uri2rank(saved) == saved.uri2rank

\* index.update_index(utils.get_uri2rank()): the rebuild reads the parts
\* through the cached entry point (an indexing query)
UpdateIndex ==
    /\ Stage = "index"
    /\ \E net \in {UpNet, DownNet} :
        /\ CachedCall([text |-> 1, from |-> FALSE], net)
        /\ IF lastQuery'.out.ok
           THEN /\ index' = [rank |-> get_uri2rank(persisted),
                              docs |-> [s \in Subjects |-> get_uri2rank(persisted).gen]]
                /\ Proceed(lastQuery'.out.log,
                           [stage |-> "index", rank |-> get_uri2rank(persisted)])
           ELSE /\ Raise(lastQuery'.out.log, EndpointDown)
                /\ UNCHANGED index
    /\ UNCHANGED <<xVars, config, wor, workload, persisted, now, fasta, clusterMod, uclustRun,
                   gateway, seqVars, clusterVars>>

\* query.memoized_query_sparql.cache_clear(); utils.log('Cache cleared')
UpdateCacheClear ==
    /\ Stage = "cache_clear"
    /\ cache' = cache_clear(cache)
    /\ clock' = 0
    /\ lastUse' = [t \in DOMAIN lastUse |-> 0]
    /\ Proceed(<<LogLine("Cache cleared", "")>>, Effect("cache_clear"))
    /\ UNCHANGED <<xVars, workload, persisted, index, now, fasta, clusterMod, uclustRun,
                   gateway, seqVars, clusterVars, queryVars>>

\* utils.save_update_end_time()
UpdateEndTime ==
    /\ Stage = "end_time"
    /\ persisted' = [persisted EXCEPT !.update_end_time = now]
    /\ now' = now + 1
    /\ Proceed(<< >>, Effect("end_time"))
    /\ UNCHANGED <<xVars, index, fasta, clusterMod, uclustRun, gateway,
                   seqVars, clusterVars, queryVars, cacheVars>>

(* GET / handled by another thread while a full update may be running: the
   arguments of search.search(...) are evaluated one after the other *)

\* utils.get_clusters()
get_clusters(saved) == saved.clusters

\* the request arrives
ReaderBegin ==
    /\ Accepting
    /\ reader.pc \in {"none", "done"}
    /\ reader' = [pc |-> "get_uri2rank"]
    /\ gateway' = [gateway EXCEPT !.served = @ + 1]
    /\ UNCHANGED <<dedup, analysis, uris, corpus, persisted, log, index, now, fasta,
                   clusterMod, uclustRun, update, response,
                   seqVars, clusterVars, queryVars, cacheVars>>

\* the second argument: utils.get_uri2rank()
ReaderGetUri2rank ==
    /\ reader.pc = "get_uri2rank"
    /\ reader' = [pc |-> "get_clusters", uri2rank |-> get_uri2rank(persisted)]
    /\ UNCHANGED <<dedup, analysis, uris, corpus, gwVars,
                   seqVars, clusterVars, queryVars, cacheVars>>

\* the third argument: utils.get_clusters()
ReaderGetClusters ==
    /\ reader.pc = "get_clusters"
    /\ reader' = [pc |-> "search", uri2rank |-> reader.uri2rank,
                  clusters |-> get_clusters(persisted)]
    /\ UNCHANGED <<dedup, analysis, uris, corpus, gwVars,
                   seqVars, clusterVars, queryVars, cacheVars>>

\* search.search(sparql_query, uri2rank, clusters, default_graph_uri), the
\* log line and the response
ReaderSearch ==
    /\ reader.pc = "search"
    /\ \E net \in {UpNet, DownNet} :
        /\ CachedCall([text |-> 2, from |-> FALSE], net)
        /\ IF lastQuery'.out.ok
           THEN /\ log' = Append(log \o lastQuery'.out.log,
                                 LogLine("Successfully sparql searched", ""))
                /\ response' = Ok("/", lastQuery'.out.rows)
           ELSE /\ log' = handle_error(EndpointDown, log \o lastQuery'.out.log).log
                /\ response' = handle_error(EndpointDown, log).response
    /\ reader' = [reader EXCEPT !.pc = "done"]
    /\ UNCHANGED <<dedup, analysis, uris, corpus, config, wor, workload, persisted,
                   index, now, fasta, clusterMod, uclustRun, update, gateway,
                   seqVars, clusterVars>>

(* the narrow index operations *)

\* query_parts('', criteria, True) with a criteria that selects one subject:
\* the query text handed to memoized_query_sparql
SubjectQuery(subject) == [text |-> IF subject = "p1" THEN 3 ELSE 4, from |-> FALSE]

\* GET /update?subject=...: index.refresh_index(subject, utils.get_uri2rank())
\* re-derives the part's document from the store, through query_parts, and
\* scores it with the rank table it is given
RefreshIndex ==
    /\ Accepting
    /\ \E subject \in Subjects, net \in {UpNet, DownNet} :
        /\ CachedCall(SubjectQuery(subject), net)
        /\ IF lastQuery'.out.ok
           THEN /\ index' = [index EXCEPT !.docs[subject] = get_uri2rank(persisted).gen]
                /\ log' = Append(log \o lastQuery'.out.log,
                                 LogLine("Successfully refreshed: ", subject))
                /\ response' = Ok("/update?subject", "Successfully refreshed: ")
           ELSE /\ log' = handle_error(EndpointDown, log \o lastQuery'.out.log).log
                /\ response' = handle_error(EndpointDown, log).response
                /\ UNCHANGED index
    /\ gateway' = [gateway EXCEPT !.served = @ + 1, !.last = "/update?subject"]
    /\ UNCHANGED <<xVars, config, wor, workload, persisted, now, fasta, clusterMod,
                   uclustRun, update, seqVars, clusterVars>>

\* the batches a POST /incrementalupdate carries
UpdateBatches == {<< >>, <<"p1">>, <<"p1", "p2">>}

\* POST /incrementalupdate: index.incremental_update(updates, utils.get_uri2rank())
IncrementalUpdate ==
    /\ Accepting
    /\ \E updates \in UpdateBatches :
        index' = [index EXCEPT !.docs =
                    [s \in Subjects |->
                        IF \E i \in DOMAIN updates : updates[i] = s
                        THEN get_uri2rank(persisted).gen ELSE @[s]]]
    /\ log' = Append(log, LogLine("Successfully incrementally updated parts", ""))
    /\ response' = Ok("/incrementalupdate", "Successfully incrementally updated parts")
    /\ gateway' = [gateway EXCEPT !.served = @ + 1, !.last = "/incrementalupdate"]
    /\ UNCHANGED <<xVars, persisted, now, fasta, clusterMod, uclustRun, update,
                   seqVars, clusterVars, queryVars, cacheVars>>

\* GET /incrementalremove?subject=...: index.incremental_remove(subject)
IncrementalRemove ==
    /\ Accepting
    /\ \E subject \in Subjects :
        /\ index' = [index EXCEPT !.docs[subject] = NoDoc]
        /\ log' = Append(log, LogLine("Successfully incrementally removed: ", subject))
    /\ response' = Ok("/incrementalremove", "Successfully incrementally removed: ")
    /\ gateway' = [gateway EXCEPT !.served = @ + 1, !.last = "/incrementalremove"]
    /\ UNCHANGED <<xVars, persisted, now, fasta, clusterMod, uclustRun, update,
                   seqVars, clusterVars, queryVars, cacheVars>>

\* the uriPrefix values of the model and the subjects that start with them
UriPrefixes == {"p", "p1"}
StartsWith(subject, uri_prefix) == uri_prefix = "p" \/ subject = uri_prefix

\* GET /incrementalremovecollection?subject=...&uriPrefix=...:
\* index.incremental_remove_collection(subject, uri_prefix)
IncrementalRemoveCollection ==
    /\ Accepting
    /\ \E subject \in Subjects, uri_prefix \in UriPrefixes :
        /\ index' = [index EXCEPT !.docs =
                        [s \in Subjects |->
                            IF s = subject \/ StartsWith(s, uri_prefix)
                            THEN NoDoc ELSE @[s]]]
        /\ log' = Append(log, LogLine("Successfully incrementally removed collection and members: ", subject))
    /\ response' = Ok("/incrementalremovecollection",
                      "Successfully incrementally removed collection and members: ")
    /\ gateway' = [gateway EXCEPT !.served = @ + 1,
                                  !.last = "/incrementalremovecollection"]
    /\ UNCHANGED <<xVars, persisted, now, fasta, clusterMod, uclustRun, update,
                   seqVars, clusterVars, queryVars, cacheVars>>

----------------------------------------------------------------------------
(* cluster.write_fasta rewriting usearch/sequences.fsa while another thread
   handles POST /sequencesearch *)

\* the sequences the last update exported and those the running one exports
OldSequences == <<[subject |-> "p3", sequence |-> "TTAA"]>>
NewSequences == <<[subject |-> "p1", sequence |-> "ACGT"],
                  [subject |-> "p2", sequence |-> "GGCC"]>>

\* the lines write_fasta writes: '>%s\n' % subject, then '%s\n' % sequence
FastaLines(sequences) ==
    [i \in 1..(2 * Len(sequences)) |->
        IF i % 2 = 1
        THEN [kind |-> "header", text |-> sequences[(i + 1) \div 2].subject]
        ELSE [kind |-> "sequence", text |-> sequences[i \div 2].sequence]]

\* a planted fault: the file is opened for appending
open_w_append(content) == content

\* open(sequences_filename, 'w'): the content of the file once it is open
open_w(content) == << >>

InitCorpus ==
    [file |-> FastaLines(OldSequences),
     writer |-> [pc |-> "idle", todo |-> << >>, buffer |-> << >>],
     search |-> [pc |-> "none", db |-> << >>, report |-> << >>]]

\* f = open(sequences_filename, 'w')
WriteFastaOpen ==
    /\ corpus.writer.pc = "idle"
    /\ corpus' = [corpus EXCEPT !.file = open_w(@),
                    !.writer = [pc |-> "write", todo |-> FastaLines(NewSequences),
                                buffer |-> << >>]]
    /\ UNCHANGED <<dedup, analysis, uris, reader, seqVars, clusterVars, queryVars,
                   cacheVars, gwVars>>

\* f.write(...): the line goes to the file object's buffer
WriteFastaWrite ==
    /\ corpus.writer.pc = "write"
    /\ corpus.writer.todo # << >>
    /\ corpus' = [corpus EXCEPT !.writer.buffer = Append(@, Head(corpus.writer.todo)),
                                !.writer.todo = Tail(@)]
    /\ UNCHANGED <<dedup, analysis, uris, reader, seqVars, clusterVars, queryVars,
                   cacheVars, gwVars>>

\* the buffer is full and is written out
WriteFastaFlush ==
    /\ corpus.writer.pc = "write"
    /\ corpus.writer.buffer # << >>
    /\ corpus' = [corpus EXCEPT !.file = @ \o corpus.writer.buffer,
                                !.writer.buffer = << >>]
    /\ UNCHANGED <<dedup, analysis, uris, reader, seqVars, clusterVars, queryVars,
                   cacheVars, gwVars>>

\* f.close()
WriteFastaClose ==
    /\ corpus.writer.pc = "write"
    /\ corpus.writer.todo = << >>
    /\ corpus' = [corpus EXCEPT !.file = @ \o corpus.writer.buffer,
                                !.writer.buffer = << >>,
                                !.writer.pc = "closed"]
    /\ UNCHANGED <<dedup, analysis, uris, reader, seqVars, clusterVars, queryVars,
                   cacheVars, gwVars>>

\* POST /sequencesearch: the body is decoded and written to a temporary file
SeqSearchArrive ==
    /\ corpus.search.pc = "none"
    /\ corpus' = [corpus EXCEPT !.search.pc = "run"]
    /\ UNCHANGED <<dedup, analysis, uris, reader, seqVars, clusterVars, queryVars,
                   cacheVars, gwVars>>

\* the report of a tool run against the corpus it read: a hit for every
\* record it finds whole
ToolReport(db) ==
    LET whole == SelectSeq([i \in 1..Len(db) |-> i],
                           LAMBDA i : db[i].kind = "header" /\ i + 1 <= Len(db))
    IN  [j \in 1..Len(whole) |->
            [c0 |-> "H", c1 |-> 0, c3 |-> "90.0", c8 |-> "query",
             c9 |-> db[whole[j]].text]]

\* the flag maps of the requests
RaceFlagMaps == {<< >>, << <<"search_exact", "0">> >>}

\* sequence_search(flags, fileName): the tool reads --db usearch/sequences.fsa
\* as it is on disk at that moment
SeqSearchRunTool ==
    /\ corpus.search.pc = "run"
    /\ \E userFlags \in RaceFlagMaps :
        LET out == sequence_search(userFlags, "tmp.fsa", globalFlags, exactFlags)
        IN  /\ globalFlags' = out.globalFlags
            /\ exactFlags' = out.exactFlags
            /\ lastSearch' = [called |-> TRUE, userFlags |-> userFlags,
                              before |-> <<globalFlags, exactFlags>>,
                              runs |-> out.runs]
            /\ supplied' = IF DictHas(userFlags, "search_exact") THEN supplied
                           ELSE supplied \cup {userFlags[i] : i \in DOMAIN userFlags}
    /\ corpus' = [corpus EXCEPT !.search =
                    [pc |-> "done", db |-> corpus.file,
                     report |-> ToolReport(corpus.file)]]
    /\ uris' = [done |-> TRUE, uris |-> uclust2uris(ToolReport(corpus.file))]
    /\ UNCHANGED <<dedup, analysis, reader, clusterVars, queryVars, cacheVars, gwVars>>

----------------------------------------------------------------------------
(* the parts of the state a specification does not exercise *)

NoAnalysis == [done |-> FALSE]
NoUris == [done |-> FALSE, uris |-> {}]
NoReader == [pc |-> "none"]
NoCorpus == InitCorpus

InitExtra ==
    /\ dedup = NoDedup
    /\ analysis = NoAnalysis
    /\ uris = NoUris
    /\ reader = NoReader
    /\ corpus = NoCorpus

----------------------------------------------------------------------------
(* specifications *)

\* the sequence search pipeline alone
SeqInit ==
    /\ InitSeq /\ InitQuery /\ InitCache /\ InitGateway /\ InitExtra
    /\ report = << >> /\ clustersOut = [done |-> FALSE, clusters |-> << >>]
SeqNext == SequenceSearch
SeqSpec == SeqInit /\ [][SeqNext]_vars

\* the report parsers alone, over every report of at most MaxLines lines
ClusterInit ==
    InitSeq /\ InitCluster /\ InitQuery /\ InitCache /\ InitGateway /\ InitExtra
ClusterNext == Uclust2clusters
ClusterSpec == ClusterInit /\ [][ClusterNext]_vars

\* query_sparql over stores of a few rows, from every configured endpoint
\* set and under every mix of failing and answering endpoints
SmallSizes == {0, 2}
FixedConfigs == {c \in Configs : c.uclust_identity = "0.8" /\ c.which_search = "vsearch"}
QueryInit ==
    /\ InitSeq /\ InitCache
    /\ report = << >> /\ clustersOut = [done |-> FALSE, clusters |-> << >>]
    /\ config \in FixedConfigs
    /\ wor \in PeerLists
    /\ lastQuery = NoQuery
    /\ InitGateway /\ InitExtra
QueryNext == QuerySparql({q \in Queries : q.text = 1}, SmallSizes)
QuerySpec == QueryInit /\ [][QueryNext]_vars

\* page_query over stores of up to MaxFullPages full pages and a remainder
MaxFullPages == 2
Remainders == {0, 1, limit - 1}
PageSizes == {k * limit + d : k \in 0..MaxFullPages, d \in Remainders}
PageInit ==
    /\ InitSeq /\ InitCache
    /\ report = << >> /\ clustersOut = [done |-> FALSE, clusters |-> << >>]
    /\ config \in FixedConfigs
    /\ wor = << >>
    /\ lastQuery = NoQuery
    /\ InitGateway /\ InitExtra
PageNext == PageQuery(Queries, PageSizes)
PageSpec == PageInit /\ [][PageNext]_vars

\* the query cache alone, in front of one endpoint
CacheInit == SeqInit
CacheNext ==
    CachedFresh \/ CachedRepeat \/ CachedRepeatChanged \/ CachedFailing \/ CacheClear
CacheSpec == CacheInit /\ [][CacheNext]_vars

\* deduplicate_results applied to every list of at most MaxRows rows
DedupInit ==
    /\ InitSeq /\ InitQuery /\ InitCache /\ InitGateway
    /\ report = << >> /\ clustersOut = [done |-> FALSE, clusters |-> << >>]
    /\ dedup \in {[NoDedup EXCEPT !.input = l] : l \in DedupInputs}
    /\ analysis = NoAnalysis /\ uris = NoUris /\ reader = NoReader /\ corpus = NoCorpus
DedupNext == Deduplicate
DedupSpec == DedupInit /\ [][DedupNext]_vars

\* analyze_uclust and uclust2uris applied to every report of at most MaxLines
\* lines
UcInit ==
    /\ InitSeq /\ InitQuery /\ InitCache /\ InitGateway
    /\ report \in UcReports
    /\ clustersOut = [done |-> FALSE, clusters |-> << >>]
    /\ dedup = NoDedup /\ analysis = NoAnalysis /\ uris = NoUris
    /\ reader = NoReader /\ corpus = NoCorpus
UcNext == AnalyzeUclust \/ Uclust2uris
UcSpec == UcInit /\ [][UcNext]_vars

\* a full update and GET / requests handled by different threads: the steps
\* of the two handlers interleave freely
ConcurrentInit == SeqInit
ConcurrentNext ==
    \/ Startup
    \/ (Idle /\ UpdateBegin)
    \/ UpdateStartTime
    \/ UpdateClusters
    \/ UpdatePagerank
    \/ UpdateIndex
    \/ UpdateCacheClear
    \/ UpdateEndTime
    \/ ReaderBegin
    \/ ReaderGetUri2rank
    \/ ReaderGetClusters
    \/ ReaderSearch
ConcurrentSpec == ConcurrentInit /\ [][ConcurrentNext]_vars

\* write_fasta of a full update and a /sequencesearch request in two threads
RaceInit == SeqInit
RaceNext ==
    \/ WriteFastaOpen
    \/ WriteFastaWrite
    \/ WriteFastaFlush
    \/ WriteFastaClose
    \/ SeqSearchArrive
    \/ SeqSearchRunTool
RaceSpec == RaceInit /\ [][RaceNext]_vars

\* the gateway serving one request at a time: the startup hook, then up to
\* MaxRequests requests, a full update running to its end before the next
\* request is taken
GatewayInit == SeqInit
GatewayNext ==
    \/ Startup
    \/ (Idle /\ ConfigPost)
    \/ (Idle /\ SparqlSearch)
    \/ (Idle /\ UpdateBegin)
    \/ (Idle /\ RefreshIndex)
    \/ (Idle /\ IncrementalUpdate)
    \/ (Idle /\ IncrementalRemove)
    \/ (Idle /\ IncrementalRemoveCollection)
    \/ UpdateStartTime
    \/ UpdateClusters
    \/ UpdatePagerank
    \/ UpdateIndex
    \/ UpdateCacheClear
    \/ UpdateEndTime
GatewaySpec == GatewayInit /\ [][GatewayNext]_vars

----------------------------------------------------------------------------
(* C5: the cluster map returned by uclust2clusters is symmetric and
   irreflexive for every report, also one that lists a part in two clusters *)
C5_SymmetricIrreflexive ==
    clustersOut.done =>
        LET clusters == clustersOut.clusters
        IN  \A a \in DOMAIN clusters :
                /\ a \notin clusters[a]
                /\ \A b \in clusters[a] : b \in DOMAIN clusters /\ a \in clusters[b]

----------------------------------------------------------------------------
(* claims about the sequence search pipeline, under SeqSpec *)

\* the value that follows option `name` in an argument vector
ArgOf(args, name) == args[(CHOOSE i \in DOMAIN args : args[i] = name) + 1]

KeysInOrder(d) == [i \in DOMAIN d |-> d[i][1]]

\* what a call with user flags uf leaves in a flag dict it may write
Overridden(before, uf) ==
    [i \in DOMAIN before |->
        <<before[i][1],
          IF DictHas(uf, before[i][1]) THEN DictGet(uf, before[i][1])
          ELSE before[i][2]>>]

(* C9: a user flag whose key is not in the relevant default flag set is not
   inserted: the set keeps its keys, a value changes only for a key that the
   set already had and the caller supplied, and the flag set of the mode not
   selected is left as it was *)
C9_FlagOverrideScoping ==
    lastSearch.called =>
        LET uf == lastSearch.userFlags
            exact == DictHas(uf, "search_exact")
        IN  /\ KeysInOrder(globalFlags) = KeysInOrder(lastSearch.before[1])
            /\ KeysInOrder(exactFlags) = KeysInOrder(lastSearch.before[2])
            /\ exact => /\ globalFlags = lastSearch.before[1]
                        /\ exactFlags = Overridden(lastSearch.before[2], uf)
            /\ ~exact => /\ exactFlags = lastSearch.before[2]
                         /\ globalFlags = Overridden(lastSearch.before[1], uf)

\* a global-mode call that supplies an unknown key and overrides a known one
C9_Witness ==
    /\ lastSearch.called
    /\ ~DictHas(lastSearch.userFlags, "search_exact")
    /\ DictHas(lastSearch.userFlags, "evalue")
    /\ DictHas(lastSearch.userFlags, "id")
    /\ globalFlags # lastSearch.before[1]

(* C10: the call runs the tool once: --search_exact exactly when the user
   flags hold the key search_exact (whatever its value), --usearch_global
   otherwise; a global run passes maxaccepts 0 only if a caller supplied
   maxaccepts = 0, and 50 as long as no caller supplied maxaccepts *)
C10_ModeSelection ==
    lastSearch.called =>
        LET uf == lastSearch.userFlags
            exact == DictHas(uf, "search_exact")
            args == lastSearch.runs[1]
        IN  /\ Len(lastSearch.runs) = 1
            /\ args[2] = IF exact THEN "--search_exact" ELSE "--usearch_global"
            /\ ~exact =>
                /\ ArgOf(args, "--maxaccepts") = "0" => <<"maxaccepts", "0">> \in supplied
                /\ (\A v \in UserValues : <<"maxaccepts", v>> \notin supplied)
                        => ArgOf(args, "--maxaccepts") = "50"

\* an exact-mode call whose search_exact value is "0", made after a global
\* call had set maxaccepts to 0
C10_Witness ==
    /\ lastSearch.called
    /\ DictHas(lastSearch.userFlags, "search_exact")
    /\ DictGet(lastSearch.userFlags, "search_exact") = "0"
    /\ lastSearch.runs[1][2] = "--search_exact"
    /\ DictGet(globalFlags, "maxaccepts") = "0"

----------------------------------------------------------------------------
(* claims about the SPARQL query layer *)

IsFailing(b) == ~b.reach \/ b.status # 200

(* C3, under QuerySpec: with distributed_search on, if any endpoint of the
   call (the primary or a peer) does not answer or answers with a status
   other than 200, query_sparql raises "Endpoint not responding" and returns
   no row, whatever the other endpoints answered *)
C3_FederationFailFast ==
    (/\ lastQuery.called = "query_sparql"
     /\ config.distributed_search
     /\ \E i \in DOMAIN EndpointsOf(config, wor) :
            IsFailing(lastQuery.net[EndpointsOf(config, wor)[i]]))
    => /\ ~lastQuery.out.ok
       /\ lastQuery.out.error = "Endpoint not responding"
       /\ lastQuery.out.rows = {}

\* the primary and the first peer answered with rows, the second peer failed
C3_Witness ==
    /\ lastQuery.called = "query_sparql"
    /\ config.distributed_search
    /\ Len(wor) = 2
    /\ LET eps == EndpointsOf(config, wor)
       IN  /\ eps[1] # eps[2] /\ eps[2] # eps[3] /\ eps[1] # eps[3]
           /\ ~IsFailing(lastQuery.net[eps[1]]) /\ lastQuery.net[eps[1]].n = 2
           /\ ~IsFailing(lastQuery.net[eps[2]]) /\ lastQuery.net[eps[2]].n = 2
           /\ lastQuery.net[eps[3]].status = 500
    /\ ~lastQuery.out.ok
    /\ Len(lastQuery.out.requests) = 3

\* the pages the store sent in answer to the requests reqs, one after another
RECURSIVE PagesReceived(_, _, _)
PagesReceived(endpoint, reqs, n) ==
    IF reqs = << >> THEN << >>
    ELSE RowsOf(StorePage(endpoint, Head(reqs).query, n))
            \o PagesReceived(endpoint, Tail(reqs), n)

(* C4, under PageSpec: against an endpoint that holds N rows, page_query
   sends its requests at offsets 0, limit, 2*limit, ... in that order, each
   with LIMIT limit, stops after the first page shorter than limit (N \div
   limit + 1 requests), and returns the pages received, concatenated: the N
   rows in the store's order *)
C4_Pagination ==
    (lastQuery.called = "page_query" /\ ~IsFailing(lastQuery.net[lastQuery.endpoint]))
    => LET N == lastQuery.net[lastQuery.endpoint].n
           reqs == lastQuery.out.requests
           rows == lastQuery.out.rows
       IN  /\ lastQuery.out.ok
           /\ Len(reqs) = (N \div limit) + 1
           /\ \A i \in DOMAIN reqs :
                /\ reqs[i].endpoint = lastQuery.endpoint
                /\ reqs[i].query.offset = (i - 1) * limit
                /\ reqs[i].query.limit = limit
           /\ rows = PagesReceived(lastQuery.endpoint, reqs, N)
           /\ Count(rows) = N
           /\ \A i \in DOMAIN rows :
                rows[i].first = (i - 1) * limit + 1

\* two full pages and a short third one
C4_Witness ==
    /\ lastQuery.called = "page_query"
    /\ ~IsFailing(lastQuery.net[lastQuery.endpoint])
    /\ lastQuery.net[lastQuery.endpoint].n = 2 * limit + 1
    /\ Len(lastQuery.out.requests) = 3
    /\ Len(lastQuery.out.rows) = 3
    /\ lastQuery.out.rows[1].count = limit
    /\ lastQuery.out.rows[2].count = limit
    /\ lastQuery.out.rows[3].count = 1

----------------------------------------------------------------------------
(* claims about the query cache, under CacheSpec *)

(* C2: the cache never holds more than maxsize = 32 entries, and an entry
   leaves it only by a clear or, when the cache is full and a query that is
   not cached is stored, as the entry whose last use (its store or its last
   hit) is the oldest of all cached entries *)
C2_CacheBoundLRU ==
    /\ Len(cache) <= maxsize
    /\ [][/\ Len(cache') <= maxsize
          /\ \A i \in DOMAIN cache :
                (cache[i].key \notin CacheKeys(cache') /\ cache' # << >>) =>
                    /\ Len(cache) = maxsize
                    /\ ~lastQuery'.hit
                    /\ lastQuery'.query \notin CacheKeys(cache)
                    /\ CacheKeys(cache') = (CacheKeys(cache) \ {cache[i].key})
                                                \cup {lastQuery'.query}
                    /\ \A j \in DOMAIN cache :
                         lastUse[cache[i].key.text] <= lastUse[cache[j].key.text]
       ]_vars

\* the cache is full, text 1 was hit after the cache filled up, and the next
\* distinct query evicted text 2 and kept text 1
C2_Witness ==
    /\ Len(cache) = maxsize
    /\ workload.fresh = maxsize + 1
    /\ workload.extras = 1
    /\ [text |-> 1, from |-> FALSE] \in CacheKeys(cache)
    /\ [text |-> 2, from |-> FALSE] \notin CacheKeys(cache)
    /\ [text |-> maxsize + 1, from |-> FALSE] \in CacheKeys(cache)
    /\ lastUse[1] = maxsize + 1

----------------------------------------------------------------------------
(* claims about the gateway, under GatewaySpec *)

\* the full update has just returned its success message
UpdateReturned == response.route = "/update" /\ response.status = 200

(* C1: when a full update returns, its steps were performed in the order
   start timestamp, cluster map, rank table, index, cache clear, end
   timestamp; the cluster map and the rank table are the ones of this update,
   the index was rebuilt with the rank table this update saved, the start
   timestamp is before the end timestamp and the query cache is empty *)
C1_FullUpdateOrder ==
    UpdateReturned =>
        /\ [i \in DOMAIN update.effects |-> update.effects[i].stage] =
              <<"start_time", "clusters", "uri2rank", "index", "cache_clear", "end_time">>
        /\ persisted.clusters.gen = update.gen
        /\ persisted.uri2rank.gen = update.gen
        /\ update.effects[4].rank.gen = update.gen
        /\ index.rank = persisted.uri2rank
        /\ persisted.update_start_time < persisted.update_end_time
        /\ cache = << >>

\* a second full update has returned: the rank table it indexed with is its
\* own, not the one the first update saved, and the entry its indexing query
\* put in the cache is gone
C1_Witness ==
    /\ UpdateReturned
    /\ update.gen = 2
    /\ index.rank.gen = 2
    /\ cache = << >>
    /\ persisted.update_start_time > 1

\* the argument that follows the option in an argument vector
ArgAfter(args, option) ==
    LET i == CHOOSE i \in DOMAIN args : args[i] = option
    IN  args[i + 1]

\* the endpoints the rows of a result were obtained from
SourcesOf(rows) == {r.pairs[1][2][1] : r \in rows}

(* C6: the configuration written by POST /config is the one every later
   operation uses: the clustering tool of a full update is run with the
   uclust_identity and the binary of the which_search configured when it
   runs, and a successful query through the cached entry point returns rows
   obtained from the endpoints configured when it is issued *)
C6_ConfigTakesEffect ==
    /\ uclustRun.ran =>
          /\ \E i \in DOMAIN uclustRun.args : uclustRun.args[i] = "-id"
          /\ ArgAfter(uclustRun.args, "-id") = uclustRun.cfg.uclust_identity
          /\ uclustRun.args[1] = BinaryFor(platform, uclustRun.cfg.which_search)
    /\ (lastQuery.called = "memoized_query_sparql" /\ lastQuery.out.ok) =>
          SourcesOf(lastQuery.out.rows) \subseteq
              {lastQuery.endpoints[i] : i \in DOMAIN lastQuery.endpoints}

(* C7: once the startup hook has run on the first request, it has triggered
   a full update if the index listing was empty, and none if the listing
   held at least one index *)
C7_StartupTriggersUpdate ==
    gateway.first_done =>
        /\ gateway.listing = << >> => gateway.triggered
        /\ gateway.listing # << >> => ~gateway.triggered

(* C8: every response to a request whose handling raised has status 500 and
   a body with the single key error whose value is a non-empty string, and
   the last line of the operational log reports that error *)
C8_ErrorEnvelope ==
    response.route = "error" =>
        /\ response.status = 500
        /\ DOMAIN response.body = {"error"}
        /\ response.body.error # ""
        /\ log # << >>
        /\ log[Len(log)] = LogLine("[ERROR] Returning error ", response.body.error)

----------------------------------------------------------------------------
(* claims about deduplicate_results, under DedupSpec *)

\* a row as the mapping it is: its keys and their values, whatever the order
\* the keys were inserted in
AsMapping(row) ==
    [keys |-> {row.pairs[i] : i \in DOMAIN row.pairs}, first |-> row.first,
     count |-> row.count]

(* C11: deduplicate_results returns one row per distinct input row: every
   input row is returned, every returned row is an input row, no two
   returned rows are the same mapping (rows that differ only in the order of
   their keys are the same), and deduplicating any listing of the returned
   rows gives the same set of rows again *)
C11_DedupOnePerRow ==
    dedup.done =>
        /\ \A i \in DOMAIN dedup.input :
              \E r \in dedup.out : AsMapping(r) = AsMapping(dedup.input[i])
        /\ \A r \in dedup.out :
              \E i \in DOMAIN dedup.input : AsMapping(r) = AsMapping(dedup.input[i])
        /\ \A r, q \in dedup.out : AsMapping(r) = AsMapping(q) => r = q
        /\ dedup.again = {dedup.out}

\* the input holds the same row twice with its keys in different orders, and
\* another row; two rows are returned
C11_Witness ==
    /\ dedup.done
    /\ Len(dedup.input) = 3
    /\ \E i, j \in DOMAIN dedup.input :
          /\ dedup.input[i].pairs # dedup.input[j].pairs
          /\ AsMapping(dedup.input[i]) = AsMapping(dedup.input[j])
    /\ Cardinality(dedup.out) = 2

NarrowRoutes ==
    {"/update?subject", "/incrementalupdate", "/incrementalremove",
     "/incrementalremovecollection"}

(* C12: a request to one of the narrow index operations (GET /update with a
   subject, POST /incrementalupdate, GET /incrementalremove, GET
   /incrementalremovecollection) leaves the persisted cluster map, the
   persisted rank table, the update timestamps and the contents of the query
   cache as they were *)
C12_NarrowOpsFrame ==
    [][(gateway'.served # gateway.served /\ gateway'.last \in NarrowRoutes) =>
            /\ persisted' = persisted
            /\ cache' = cache]_vars

----------------------------------------------------------------------------
(* claims about analyze_uclust and uclust2uris, under UcSpec *)

\* the lines of the report whose record type is in types
LinesOfType(types) == {i \in DOMAIN report : report[i].c0 \in types}

\* the sum of the identity column over a set of lines
RECURSIVE IdentitySum(_)
IdentitySum(is) ==
    IF is = {} THEN 0
    ELSE LET i == CHOOSE i \in is : TRUE
         IN  float(report[i].c3) + IdentitySum(is \ {i})

(* C13: analyze_uclust counts the H and S lines as total parts and the H
   lines as hits, sums the identity column of exactly the H lines, and logs
   the mean, that sum divided by the number of hits, exactly when there is a
   hit; lines of other types count for nothing *)
C13_HitIdentityAccounting ==
    analysis.done =>
        /\ analysis.total_parts = Cardinality(LinesOfType({"H", "S"}))
        /\ analysis.hits = Cardinality(LinesOfType({"H"}))
        /\ analysis.total_identity = IdentitySum(LinesOfType({"H"}))
        /\ analysis.log[1] = [text |-> "parts: ", n |-> analysis.total_parts]
        /\ analysis.log[2] = [text |-> "hits: ", n |-> analysis.hits]
        /\ IF analysis.hits > 0
           THEN /\ Len(analysis.log) = 3
                /\ analysis.log[3] =
                      [text |-> "average hit identity: ",
                       n |-> Quotient(analysis.total_identity, analysis.hits)]
           ELSE Len(analysis.log) = 2

\* two H lines with 90.0 and 80.0 and one S line: 3 parts, 2 hits, mean 85.0
C13_Witness ==
    /\ analysis.done
    /\ Len(report) = 3
    /\ Cardinality(LinesOfType({"S"})) = 1
    /\ {report[i].c3 : i \in LinesOfType({"H"})} = {"90.0", "80.0"}
    /\ analysis.total_parts = 3
    /\ analysis.hits = 2
    /\ analysis.log[3].n = [whole |-> 850, rest |-> 0]

(* C19: the set uclust2uris returns is the set of the values in column 9 of
   the H lines of the report: other lines add nothing, and a report that is
   empty or has no H line gives the empty set *)
C19_HitTargets ==
    uris.done =>
        /\ uris.uris = {report[i].c9 : i \in LinesOfType({"H"})}
        /\ (LinesOfType({"H"}) = {}) => uris.uris = {}

\* two H lines with the same target, an S line, and the one target returned
C19_Witness ==
    /\ uris.done
    /\ Len(report) = 3
    /\ Cardinality(LinesOfType({"H"})) = 2
    /\ Cardinality(LinesOfType({"S"})) = 1
    /\ uris.uris = {"p2"}

\* the full update has just been left by an exception raised in update.failed
UpdateFailed ==
    /\ gateway.last = "/update"
    /\ update.pc = 0
    /\ update.failed # "none"

\* the stages of a full update that come before the given one
StagesBefore(stage) ==
    LET order == <<"start_time", "clusters", "uri2rank", "index", "cache_clear", "end_time">>
        k == CHOOSE k \in DOMAIN order : order[k] = stage
    IN  SubSeq(order, 1, k - 1)

(* C14: when a full update fails in a stage, what the earlier stages did
   stays and no later stage has run: the stages performed are exactly those
   before the failing one; after a failure in the ranking stage the cluster
   map is the one this update saved and the rank table the previous one;
   after a failure in a stage before the cache clear the query cache is as
   it was when the update began, the end timestamp is the previous one and
   the start timestamp is the one this update recorded *)
C14_NoRollback ==
    UpdateFailed =>
        /\ response.status = 500
        /\ [i \in DOMAIN update.effects |-> update.effects[i].stage] =
              StagesBefore(update.failed)
        /\ update.failed = "clusters" =>
              /\ persisted.clusters = update.before.persisted.clusters
              /\ persisted.uri2rank = update.before.persisted.uri2rank
        /\ update.failed = "uri2rank" =>
              /\ persisted.clusters.gen = update.gen
              /\ persisted.uri2rank = update.before.persisted.uri2rank
        /\ update.failed = "index" =>
              /\ persisted.clusters.gen = update.gen
              /\ persisted.uri2rank.gen = update.gen
        /\ update.failed \in {"clusters", "uri2rank", "index"} =>
              /\ cache = update.before.cache
              /\ persisted.update_end_time = update.before.persisted.update_end_time
              /\ persisted.update_start_time > update.before.persisted.update_start_time

\* a second full update failed in the ranking stage while the cache held an
\* entry: the cluster map is the second update's, the rank table the first's
C14_Witness ==
    /\ UpdateFailed
    /\ update.failed = "uri2rank"
    /\ update.gen = 2
    /\ persisted.clusters.gen = 2
    /\ persisted.uri2rank.gen = 1
    /\ cache # << >>
    /\ persisted.update_end_time > 0

----------------------------------------------------------------------------
(* C15: the overrides of a global-mode call stay in the process-wide flag
   defaults: a global-mode call writes every recognized flag it supplies
   into globalFlags, and a call that does not supply a recognized flag runs
   the tool with the value globalFlags held before the call, the one the
   last caller who supplied it left there, and leaves that value in place;
   an exact-mode call leaves globalFlags as it was *)
C15_FlagPersistence ==
    [][LET uf == lastSearch'.userFlags
           exact == DictHas(uf, "search_exact")
       IN  /\ exact => globalFlags' = globalFlags
           /\ ~exact =>
                \A k \in DictKeys(globalFlags) :
                    /\ DictHas(uf, k) => DictGet(globalFlags', k) = DictGet(uf, k)
                    /\ ~DictHas(uf, k) =>
                          /\ ArgOf(lastSearch'.runs[1], Dashed(k)) = DictGet(globalFlags, k)
                          /\ DictGet(globalFlags', k) = DictGet(globalFlags, k)
      ]_vars

\* a global-mode call that supplies no id runs the tool with the id 0.9 an
\* earlier caller supplied, not with the default 0.8
C15_Witness ==
    /\ lastSearch.called
    /\ ~DictHas(lastSearch.userFlags, "search_exact")
    /\ ~DictHas(lastSearch.userFlags, "id")
    /\ DictGet(InitGlobalFlags, "id") = "0.8"
    /\ ArgOf(lastSearch.runs[1], "--id") = "0.9"
    /\ <<"id", "0.9">> \in supplied

----------------------------------------------------------------------------
(* C16: a GET / request that runs beside a full update hands search.search a
   rank table and a cluster map of the same update generation *)
C16_SnapshotConsistency ==
    reader.pc \in {"search", "done"} => reader.uri2rank.gen = reader.clusters.gen

----------------------------------------------------------------------------
(* claims about the corpus file, under RaceSpec *)

IsPrefix(a, b) == Len(a) <= Len(b) /\ a = SubSeq(b, 1, Len(a))

(* C17: nothing keeps a /sequencesearch request from reading the corpus file
   while write_fasta rewrites it: between open and close the file holds only
   the lines written out so far, the search's tool run can be taken whenever
   the request has reached it, whatever write_fasta is doing, and the run
   reads the file as it is at that moment *)
C17_CorpusRace ==
    /\ [](corpus.writer.pc = "write" =>
              IsPrefix(corpus.file, FastaLines(NewSequences)))
    /\ [](corpus.search.pc = "run" => ENABLED SeqSearchRunTool)
    /\ [][(corpus.search.pc = "run" /\ corpus'.search.pc = "done") =>
              corpus'.search.db = corpus.file]_vars

\* a search has read the corpus while write_fasta was between open and close:
\* it saw the first record only, and reports a hit for p1 and none for p2
C17_Witness ==
    /\ corpus.search.pc = "done"
    /\ corpus.writer.pc = "write"
    /\ corpus.search.db = SubSeq(FastaLines(NewSequences), 1, 2)
    /\ uris.uris = {"p1"}

----------------------------------------------------------------------------
(* more claims about the query cache, under CacheSpec *)

\* the last call went through the cached entry point
Memoized == lastQuery.called = "memoized_query_sparql"

(* C18: a call with a query text that is in the cache sends no request and
   returns the rows stored for that text; the rows stored for a text stay
   the same for as long as the text stays in the cache; and a call that
   sends requests is a call with a text that is not in the cache (never
   stored, evicted, or dropped by a clear) *)
C18_HitSendsNothing ==
    /\ [](Memoized =>
            /\ lastQuery.cached # << >> =>
                  /\ lastQuery.out.requests = << >>
                  /\ lastQuery.out.ok
                  /\ lastQuery.out.rows = lastQuery.cached[1]
            /\ lastQuery.out.requests # << >> => lastQuery.cached = << >>)
    /\ [][\A i \in DOMAIN cache, j \in DOMAIN cache' :
            cache[i].key = cache'[j].key => cache[i].value = cache'[j].value]_vars

\* a cached text is asked for again while the endpoints are down: the call
\* succeeds with the stored rows and sends nothing
C18_Witness ==
    /\ Memoized
    /\ lastQuery.net = DownNet
    /\ lastQuery.hit
    /\ lastQuery.out.ok
    /\ lastQuery.out.rows # {}
    /\ lastQuery.out.requests = << >>

(* C20: a call through the cached entry point that fails leaves the cache as
   it was, and the next call with the same query text is not answered from
   the cache: it sends requests and returns what the endpoints answer *)
C20_FailureNotCached ==
    /\ [][(lastQuery' # lastQuery /\ lastQuery'.called = "memoized_query_sparql"
             /\ ~lastQuery'.out.ok) => cache' = cache]_vars
    /\ [](Memoized /\ lastQuery.retry =>
            /\ ~lastQuery.hit
            /\ lastQuery.out.requests # << >>
            /\ lastQuery.out = query_sparql(lastQuery.query, config, wor, lastQuery.net))

\* a text fails, is asked for again with the endpoints up, and is answered
\* with rows and stored
C20_Witness ==
    /\ Memoized
    /\ lastQuery.retry
    /\ lastQuery.out.ok
    /\ lastQuery.out.rows # {}
    /\ lastQuery.query \in CacheKeys(cache)

====
